---- MODULE Spec2Model ----
(***************************************************************************)
(* xdrlib3: the XDR Packer and Unpacker of src/xdrlib3/__init__.py.        *)
(*                                                                         *)
(* A byte of the wire format is modelled with BitsPerByte bits instead of  *)
(* 8, so that a 4-byte word (the code's 32 bits) and an 8-byte hyper (the  *)
(* code's 64 bits) fit the model checker's integers.  Every width of the   *)
(* code is kept as a multiple of the byte: a word is 4 bytes, big-endian,  *)
(* the shift x >> 32 is a shift by one word, the mask 0xFFFFFFFF is the    *)
(* largest word, 2^64 is HyperMod.                                         *)
(*                                                                         *)
(* Python values: a bytes object and a list are sequences; True and False  *)
(* are the integers 1 and 0 (bool is a subclass of int); an exception is   *)
(* the status of the call that raised it.                                  *)
(***************************************************************************)
EXTENDS Integers, Sequences, FiniteSets, TLC

VARIABLES
  pbuf,     \* Packer.__buf: the bytes written
  plog,     \* the Packer calls made so far, each with its arguments, its
            \* status and the number of bytes it added to the buffer
  plast,    \* get_buffer() before the last Packer call
  ubuf,     \* Unpacker.__buf
  upos,     \* Unpacker.__pos
  ulast,    \* the last Unpacker call: its arguments, status, result, and
            \* get_position() before it
  uread,    \* the bytes of ubuf (1-based) that a successful unpack call consumed
  mode,     \* what the caller is doing: "pack", "replay", "free" or "seek"
  unext     \* replaying: the entry of plog whose unpack call comes next

vars == <<pbuf, plog, plast, ubuf, upos, ulast, uread, mode, unext>>

pvars == <<pbuf, plog, plast>>

uvars == <<ubuf, upos, ulast, uread>>

(***************************************************************************)
(* Bounds of the model.                                                    *)
(***************************************************************************)
BitsPerByte == 2

MaxCalls == 2

MaxStrLen == 3

MaxWords == 3

MaxOver == 4

(***************************************************************************)
(* Widths of the wire format.                                              *)
(***************************************************************************)
ByteMod == 2 ^ BitsPerByte

ByteMax == ByteMod - 1

WordMod == ByteMod ^ 4

WordMax == WordMod - 1

WordHalf == WordMod \div 2

HyperMod == WordMod * WordMod

HyperHalf == HyperMod \div 2

(***************************************************************************)
(* Sequences of Python.                                                    *)
(***************************************************************************)
Zeros(k) == [i \in 1 .. k |-> 0]

\* One index of a slice: a negative index counts from the end, and the
\* result is clamped to 0 .. len.
PyIndex(i, len) ==
  LET k == IF i < 0 THEN i + len ELSE i
  IN  IF k < 0 THEN 0 ELSE IF k > len THEN len ELSE k

\* s[i:j]
PySlice(s, i, j) ==
  LET a == PyIndex(i, Len(s))
      b == PyIndex(j, Len(s))
  IN  IF a < b THEN SubSeq(s, a + 1, b) ELSE <<>>

(***************************************************************************)
(* struct.pack and struct.unpack, formats ">L" and ">l".                   *)
(***************************************************************************)
\* The four bytes of a word 0 .. WordMax, the most significant first.
BigEndian(w) ==
  << w \div (ByteMod ^ 3),
     (w \div (ByteMod ^ 2)) % ByteMod,
     (w \div ByteMod) % ByteMod,
     w % ByteMod >>

struct_pack_L(x) ==
  IF x >= 0 /\ x <= WordMax
    THEN [status |-> "ok", data |-> BigEndian(x)]
    ELSE [status |-> "struct.error", data |-> <<>>]

struct_pack_l(x) ==
  IF x >= -WordHalf /\ x < WordHalf
    THEN [status |-> "ok", data |-> BigEndian(x % WordMod)]
    ELSE [status |-> "struct.error", data |-> <<>>]

struct_unpack_L(data) ==
  ((data[1] * ByteMod + data[2]) * ByteMod + data[3]) * ByteMod + data[4]

struct_unpack_l(data) ==
  LET u == struct_unpack_L(data)
  IN  IF u >= WordHalf THEN u - WordMod ELSE u

(***************************************************************************)
(* Packer.  Every operator takes the bytes written so far and returns the  *)
(* bytes written after the call with the call's status: "ok", or the       *)
(* exception it raised.                                                    *)
(***************************************************************************)
\* raise_conversion_error: a struct.error leaves as a ConversionError.
raise_conversion_error(buf, r) ==
  IF r.status = "ok"
    THEN [status |-> "ok", buf |-> buf \o r.data]
    ELSE [status |-> "ConversionError", buf |-> buf]

pack_uint(buf, x) == raise_conversion_error(buf, struct_pack_L(x))

pack_int(buf, x) == raise_conversion_error(buf, struct_pack_l(x))

pack_bool(buf, x) ==
  IF x # 0
    THEN [status |-> "ok", buf |-> buf \o <<0, 0, 0, 1>>]
    ELSE [status |-> "ok", buf |-> buf \o <<0, 0, 0, 0>>]

\* A pack_uhyper that writes the low word before the high word.
pack_uhyper_low_first(buf, x) ==
  LET lo == pack_uint(buf, x % WordMod)
  IN  IF lo.status # "ok" THEN lo
      ELSE pack_uint(lo.buf, (x \div WordMod) % WordMod)

\* x >> 32 & 0xFFFFFFFF, then x & 0xFFFFFFFF
pack_uhyper(buf, x) ==
  LET hi == pack_uint(buf, (x \div WordMod) % WordMod)
  IN  IF hi.status # "ok" THEN hi ELSE pack_uint(hi.buf, x % WordMod)

pack_hyper(buf, x) == pack_uhyper(buf, x)

\* A pack_fstring that pads the bytes it selected, not the declared length.
pack_fstring_pads_data(buf, n, s) ==
  IF n < 0
    THEN [status |-> "ValueError", buf |-> buf]
    ELSE LET data == PySlice(s, 0, n)
             m == ((Len(data) + 3) \div 4) * 4
         IN  [status |-> "ok", buf |-> buf \o data \o Zeros(m - Len(data))]

pack_fstring(buf, n, s) ==
  IF n < 0
    THEN [status |-> "ValueError", buf |-> buf]
    ELSE LET data == PySlice(s, 0, n)
             m == ((n + 3) \div 4) * 4
         IN  [status |-> "ok", buf |-> buf \o data \o Zeros(m - Len(data))]

pack_string(buf, s) ==
  LET n == Len(s)
      r == pack_uint(buf, n)
  IN  IF r.status # "ok" THEN r ELSE pack_fstring(r.buf, n, s)

\* The item packer handed to pack_list, pack_farray and pack_array.
pack_item(buf, item) == pack_int(buf, item)

RECURSIVE pack_list_loop(_, _, _)
pack_list_loop(buf, list, k) ==
  IF k > Len(list)
    THEN pack_uint(buf, 0)
    ELSE LET tag == pack_uint(buf, 1)
             it == pack_item(tag.buf, list[k])
         IN  IF tag.status # "ok" THEN tag
             ELSE IF it.status # "ok" THEN it
             ELSE pack_list_loop(it.buf, list, k + 1)

pack_list(buf, list) == pack_list_loop(buf, list, 1)

RECURSIVE pack_farray_loop(_, _, _)
pack_farray_loop(buf, list, k) ==
  IF k > Len(list)
    THEN [status |-> "ok", buf |-> buf]
    ELSE LET it == pack_item(buf, list[k])
         IN  IF it.status # "ok" THEN it
             ELSE pack_farray_loop(it.buf, list, k + 1)

pack_farray(buf, n, list) ==
  IF Len(list) # n
    THEN [status |-> "ValueError", buf |-> buf]
    ELSE pack_farray_loop(buf, list, 1)

pack_array(buf, list) ==
  LET n == Len(list)
      r == pack_uint(buf, n)
  IN  IF r.status # "ok" THEN r ELSE pack_farray(r.buf, n, list)

(***************************************************************************)
(* Unpacker.  Every operator takes the buffer and the cursor and returns   *)
(* the call's status ("ok" or the exception raised), the cursor it leaves, *)
(* and its result: an integer in x, or bytes or a list in s.               *)
(***************************************************************************)
unpack_uint(buf, pos) ==
  LET i == pos
      j == i + 4
      data == PySlice(buf, i, j)
  IN  IF Len(data) < 4
        THEN [status |-> "EOFError", pos |-> j, x |-> 0, s |-> <<>>]
        ELSE [status |-> "ok", pos |-> j, x |-> struct_unpack_L(data), s |-> <<>>]

unpack_int(buf, pos) ==
  LET i == pos
      j == i + 4
      data == PySlice(buf, i, j)
  IN  IF Len(data) < 4
        THEN [status |-> "EOFError", pos |-> j, x |-> 0, s |-> <<>>]
        ELSE [status |-> "ok", pos |-> j, x |-> struct_unpack_l(data), s |-> <<>>]

\* bool(self.unpack_int())
unpack_bool(buf, pos) ==
  LET r == unpack_int(buf, pos)
  IN  IF r.status # "ok" THEN r
      ELSE [r EXCEPT !.x = IF r.x # 0 THEN 1 ELSE 0]

\* int(hi) << 32 | lo
unpack_uhyper(buf, pos) ==
  LET hi == unpack_uint(buf, pos)
      lo == unpack_uint(buf, hi.pos)
  IN  IF hi.status # "ok" THEN hi
      ELSE IF lo.status # "ok" THEN lo
      ELSE [lo EXCEPT !.x = hi.x * WordMod + lo.x]

unpack_hyper(buf, pos) ==
  LET r == unpack_uhyper(buf, pos)
  IN  IF r.status # "ok" THEN r
      ELSE IF r.x >= HyperHalf THEN [r EXCEPT !.x = r.x - HyperMod]
      ELSE r

\* An unpack_fstring that does not skip the padding.
unpack_fstring_unpadded(buf, pos, n) ==
  IF n < 0
    THEN [status |-> "ValueError", pos |-> pos, x |-> 0, s |-> <<>>]
    ELSE LET i == pos
             j == i + n
         IN  IF j > Len(buf)
               THEN [status |-> "EOFError", pos |-> pos, x |-> 0, s |-> <<>>]
               ELSE [status |-> "ok", pos |-> j, x |-> 0,
                     s |-> PySlice(buf, i, i + n)]

unpack_fstring(buf, pos, n) ==
  IF n < 0
    THEN [status |-> "ValueError", pos |-> pos, x |-> 0, s |-> <<>>]
    ELSE LET i == pos
             j == i + ((n + 3) \div 4) * 4
         IN  IF j > Len(buf)
               THEN [status |-> "EOFError", pos |-> pos, x |-> 0, s |-> <<>>]
               ELSE [status |-> "ok", pos |-> j, x |-> 0,
                     s |-> PySlice(buf, i, i + n)]

unpack_string(buf, pos) ==
  LET n == unpack_uint(buf, pos)
  IN  IF n.status # "ok" THEN n ELSE unpack_fstring(buf, n.pos, n.x)

\* The item unpacker handed to unpack_list, unpack_farray and unpack_array.
unpack_item(buf, pos) == unpack_int(buf, pos)

\* A loop of unpack_list that takes every tag but 0 for "one more item".
RECURSIVE unpack_list_loop_any_tag(_, _, _, _, _)
unpack_list_loop_any_tag(buf, pos, list, tags, calls) ==
  LET t == unpack_uint(buf, pos)
      item == unpack_item(buf, t.pos)
  IN  IF t.status # "ok"
        THEN [status |-> t.status, pos |-> t.pos, x |-> 0, s |-> <<>>,
              tags |-> tags, calls |-> calls]
      ELSE IF t.x = 0
        THEN [status |-> "ok", pos |-> t.pos, x |-> 0, s |-> list,
              tags |-> Append(tags, t.x), calls |-> calls]
      ELSE IF item.status # "ok"
        THEN [status |-> item.status, pos |-> item.pos, x |-> 0, s |-> <<>>,
              tags |-> Append(tags, t.x), calls |-> calls + 1]
      ELSE unpack_list_loop_any_tag(buf, item.pos, Append(list, item.x),
                                    Append(tags, t.x), calls + 1)

\* The loop of unpack_list.  Beside the result it returns the tags it read
\* and the number of times it invoked the item unpacker.
RECURSIVE unpack_list_loop(_, _, _, _, _)
unpack_list_loop(buf, pos, list, tags, calls) ==
  LET t == unpack_uint(buf, pos)
      item == unpack_item(buf, t.pos)
  IN  IF t.status # "ok"
        THEN [status |-> t.status, pos |-> t.pos, x |-> 0, s |-> <<>>,
              tags |-> tags, calls |-> calls]
      ELSE IF t.x = 0
        THEN [status |-> "ok", pos |-> t.pos, x |-> 0, s |-> list,
              tags |-> Append(tags, t.x), calls |-> calls]
      ELSE IF t.x # 1
        THEN [status |-> "ConversionError", pos |-> t.pos, x |-> 0, s |-> <<>>,
              tags |-> Append(tags, t.x), calls |-> calls]
      ELSE IF item.status # "ok"
        THEN [status |-> item.status, pos |-> item.pos, x |-> 0, s |-> <<>>,
              tags |-> Append(tags, t.x), calls |-> calls + 1]
      ELSE unpack_list_loop(buf, item.pos, Append(list, item.x),
                            Append(tags, t.x), calls + 1)

unpack_list(buf, pos) == unpack_list_loop(buf, pos, <<>>, <<>>, 0)

RECURSIVE unpack_farray_loop(_, _, _, _)
unpack_farray_loop(buf, pos, n, list) ==
  IF Len(list) >= n
    THEN [status |-> "ok", pos |-> pos, x |-> 0, s |-> list]
    ELSE LET item == unpack_item(buf, pos)
         IN  IF item.status # "ok" THEN item
             ELSE unpack_farray_loop(buf, item.pos, n, Append(list, item.x))

unpack_farray(buf, pos, n) == unpack_farray_loop(buf, pos, n, <<>>)

unpack_array(buf, pos) ==
  LET n == unpack_uint(buf, pos)
  IN  IF n.status # "ok" THEN n ELSE unpack_farray(buf, n.pos, n.x)

\* Unpacker(data) and reset(data)
reset(data) == [buf |-> data, pos |-> 0]

\* done(): raises Error when the cursor is before the end of the buffer.
done(buf, pos) == IF pos < Len(buf) THEN "Error" ELSE "ok"

(***************************************************************************)
(* The arguments the calls are made with.                                  *)
(***************************************************************************)
UintArgs == {0, 1, WordMax, WordMod, -1}

IntArgs == {-WordHalf, -1, WordHalf - 1, WordHalf, -WordHalf - 1}

BoolArgs == {0, 1}

UhyperArgs == {WordMod + 2, HyperMod - 1, HyperMod, HyperMod + WordMod + 2}

HyperArgs == {-1, -HyperHalf, HyperHalf - 1, -HyperHalf - 1}

\* The byte string of length k: 1, 2, ... (no zero byte, so that padding shows).
Str(k) == [i \in 1 .. k |-> ((i - 1) % ByteMax) + 1]

Strs == {Str(k) : k \in 0 .. MaxStrLen}

FstringSizes == -1 .. MaxStrLen + 1

ItemLists == {<<>>, <<1>>, <<1, -2>>, <<1, WordHalf>>}

\* The buffers an Unpacker is created on: up to MaxWords words of 0, 1, 2 and
\* the largest word, then up to three more bytes.
WordsOf(ws) ==
  [i \in 1 .. 4 * Len(ws) |-> BigEndian(ws[((i - 1) \div 4) + 1])[((i - 1) % 4) + 1]]

Buffers ==
  {WordsOf(ws) \o Zeros(t) :
     ws \in UNION {[1 .. k -> {0, 1, 2, WordMax}] : k \in 0 .. MaxWords}, t \in 0 .. 3}

\* The arguments the spec calls in range.
IsUint(x) == x >= 0 /\ x < WordMod

IsInt(x) == x >= -WordHalf /\ x < WordHalf

IsUhyper(x) == x >= 0 /\ x < HyperMod

IsHyper(x) == x >= -HyperHalf /\ x < HyperHalf

IsIntList(l) == \A k \in 1 .. Len(l) : IsInt(l[k])

(***************************************************************************)
(* The calls on the Packer.                                                *)
(***************************************************************************)
NoCall ==
  [op |-> "reset", n |-> 0, status |-> "ok", x |-> 0, s |-> <<>>, before |-> 0,
   tags |-> <<>>, calls |-> 0]

\* Packer() and Unpacker(b""); the calls come from the caller that packs.
Init ==
  /\ pbuf = <<>>
  /\ plog = <<>>
  /\ plast = <<>>
  /\ ubuf = reset(<<>>).buf
  /\ upos = reset(<<>>).pos
  /\ ulast = NoCall
  /\ uread = {}
  /\ mode = "pack"
  /\ unext = 1

\* One call on the Packer: r is what the call makes of the buffer.
PackCall(op, x, n, s, inrange, r) ==
  /\ mode = "pack"
  /\ Len(plog) < MaxCalls
  /\ pbuf' = r.buf
  /\ plast' = pbuf
  /\ plog' = Append(plog, [op |-> op, x |-> x, n |-> n, s |-> s,
                           status |-> r.status, inrange |-> inrange,
                           size |-> Len(r.buf) - Len(pbuf)])
  /\ UNCHANGED <<uvars, mode, unext>>

PackUint ==
  \E x \in UintArgs : PackCall("pack_uint", x, 0, <<>>, IsUint(x), pack_uint(pbuf, x))

PackInt ==
  \E x \in IntArgs : PackCall("pack_int", x, 0, <<>>, IsInt(x), pack_int(pbuf, x))

PackBool ==
  \E x \in BoolArgs : PackCall("pack_bool", x, 0, <<>>, TRUE, pack_bool(pbuf, x))

PackUhyper ==
  \E x \in UhyperArgs :
    PackCall("pack_uhyper", x, 0, <<>>, IsUhyper(x), pack_uhyper(pbuf, x))

PackHyper ==
  \E x \in HyperArgs :
    PackCall("pack_hyper", x, 0, <<>>, IsHyper(x), pack_hyper(pbuf, x))

PackFstring ==
  \E n \in FstringSizes, s \in Strs :
    PackCall("pack_fstring", 0, n, s, n = Len(s), pack_fstring(pbuf, n, s))

PackString ==
  \E s \in Strs : PackCall("pack_string", 0, 0, s, TRUE, pack_string(pbuf, s))

PackList ==
  \E l \in ItemLists : PackCall("pack_list", 0, 0, l, IsIntList(l), pack_list(pbuf, l))

PackFarray ==
  \E l \in ItemLists, d \in {0, 1} :
    PackCall("pack_farray", 0, Len(l) + d, l, d = 0 /\ IsIntList(l),
             pack_farray(pbuf, Len(l) + d, l))

PackArray ==
  \E l \in ItemLists :
    PackCall("pack_array", 0, 0, l, IsIntList(l), pack_array(pbuf, l))

(***************************************************************************)
(* The calls on the Unpacker.  A caller that replays a Packer's calls      *)
(* makes the unpack call matching the next entry of plog; a free caller    *)
(* makes any call; a seeking caller makes any call after a set_position.   *)
(***************************************************************************)
Turn(packop) ==
  \/ /\ mode = "replay"
     /\ unext <= Len(plog)
     /\ plog[unext].op = packop
  \/ /\ mode = "free"
     /\ upos <= Len(ubuf) + MaxOver
  \/ /\ mode = "seek"
     /\ ulast.op = "set_position"

\* The size argument of unpack_fstring and unpack_farray.
Size(n) == mode = "replay" => n = plog[unext].n

\* One call on the Unpacker: r is its status, the cursor it leaves and its result.
UnpackCall(op, n, r, tags, calls) ==
  /\ upos' = r.pos
  /\ ulast' = [op |-> op, n |-> n, status |-> r.status, x |-> r.x, s |-> r.s,
               before |-> upos, tags |-> tags, calls |-> calls]
  /\ uread' = IF r.status = "ok"
                THEN uread \cup {k \in 1 .. Len(ubuf) : upos < k /\ k <= r.pos}
                ELSE uread
  /\ unext' = IF mode = "replay" THEN unext + 1 ELSE unext
  /\ UNCHANGED <<pvars, ubuf, mode>>

\* Unpacker(p.get_buffer())
NewUnpacker ==
  /\ mode = "pack"
  /\ \A k \in 1 .. Len(plog) : plog[k].inrange
  /\ ubuf' = reset(pbuf).buf
  /\ upos' = reset(pbuf).pos
  /\ ulast' = NoCall
  /\ uread' = {}
  /\ mode' = "replay"
  /\ unext' = 1
  /\ UNCHANGED pvars

\* A caller that seeks does so once, on the Unpacker it created.
SetPosition ==
  /\ mode = "seek"
  /\ ulast.op = "reset"
  /\ \E position \in (-Len(ubuf) - 1) .. (Len(ubuf) + MaxOver) : upos' = position
  /\ ulast' = [NoCall EXCEPT !.op = "set_position", !.before = upos]
  /\ UNCHANGED <<pvars, ubuf, uread, mode, unext>>

Done ==
  /\ \/ mode = "free"
     \/ mode = "replay" /\ unext > Len(plog)
  /\ ulast' = [NoCall EXCEPT !.op = "done", !.status = done(ubuf, upos),
                             !.before = upos]
  /\ UNCHANGED <<pvars, ubuf, upos, uread, mode, unext>>

UnpackUint ==
  Turn("pack_uint") /\ UnpackCall("unpack_uint", 0, unpack_uint(ubuf, upos), <<>>, 0)

UnpackInt ==
  Turn("pack_int") /\ UnpackCall("unpack_int", 0, unpack_int(ubuf, upos), <<>>, 0)

UnpackBool ==
  Turn("pack_bool") /\ UnpackCall("unpack_bool", 0, unpack_bool(ubuf, upos), <<>>, 0)

UnpackUhyper ==
  Turn("pack_uhyper")
  /\ UnpackCall("unpack_uhyper", 0, unpack_uhyper(ubuf, upos), <<>>, 0)

UnpackHyper ==
  Turn("pack_hyper") /\ UnpackCall("unpack_hyper", 0, unpack_hyper(ubuf, upos), <<>>, 0)

UnpackFstring ==
  /\ Turn("pack_fstring")
  /\ \E n \in FstringSizes :
       Size(n) /\ UnpackCall("unpack_fstring", n, unpack_fstring(ubuf, upos, n), <<>>, 0)

UnpackString ==
  Turn("pack_string")
  /\ UnpackCall("unpack_string", 0, unpack_string(ubuf, upos), <<>>, 0)

UnpackList ==
  /\ Turn("pack_list")
  /\ LET r == unpack_list(ubuf, upos)
     IN  UnpackCall("unpack_list", 0, r, r.tags, r.calls)

UnpackFarray ==
  /\ Turn("pack_farray")
  /\ \E n \in 0 .. 3 :
       Size(n) /\ UnpackCall("unpack_farray", n, unpack_farray(ubuf, upos, n), <<>>, 0)

UnpackArray ==
  Turn("pack_array")
  /\ UnpackCall("unpack_array", 0, unpack_array(ubuf, upos), <<>>, 0)

\* A caller packs a message, then unpacks the buffer call by call.
Next ==
  \/ PackUint
  \/ PackInt
  \/ PackBool
  \/ PackUhyper
  \/ PackHyper
  \/ PackFstring
  \/ PackString
  \/ PackList
  \/ PackFarray
  \/ PackArray
  \/ NewUnpacker
  \/ UnpackUint
  \/ UnpackInt
  \/ UnpackBool
  \/ UnpackUhyper
  \/ UnpackHyper
  \/ UnpackFstring
  \/ UnpackString
  \/ UnpackList
  \/ UnpackFarray
  \/ UnpackArray
  \/ Done

Spec == Init /\ [][Next]_vars

\* A caller creates an Unpacker on data it was given and unpacks it.
InitFree ==
  /\ pbuf = <<>>
  /\ plog = <<>>
  /\ plast = <<>>
  /\ \E data \in Buffers : ubuf = reset(data).buf /\ upos = reset(data).pos
  /\ ulast = NoCall
  /\ uread = {}
  /\ mode = "free"
  /\ unext = 1

NextFree ==
  \/ Done
  \/ UnpackUint
  \/ UnpackInt
  \/ UnpackBool
  \/ UnpackUhyper
  \/ UnpackHyper
  \/ UnpackFstring
  \/ UnpackString
  \/ UnpackList
  \/ UnpackFarray
  \/ UnpackArray

SpecFree == InitFree /\ [][NextFree]_vars

\* A caller creates an Unpacker, moves its cursor and reads there.
InitSeek ==
  /\ pbuf = <<>>
  /\ plog = <<>>
  /\ plast = <<>>
  /\ \E data \in Buffers : ubuf = reset(data).buf /\ upos = reset(data).pos
  /\ ulast = NoCall
  /\ uread = {}
  /\ mode = "seek"
  /\ unext = 1

NextSeek ==
  \/ SetPosition
  \/ UnpackUint
  \/ UnpackInt
  \/ UnpackBool
  \/ UnpackUhyper
  \/ UnpackHyper
  \/ UnpackFstring
  \/ UnpackString
  \/ UnpackList
  \/ UnpackFarray
  \/ UnpackArray

SpecSeek == InitSeek /\ [][NextSeek]_vars

(***************************************************************************)
(* The properties.                                                         *)
(***************************************************************************)
Min(a, b) == IF a < b THEN a ELSE b

\* The last call on the Packer, and the bytes it appended.
Last == plog[Len(plog)]

Appended == SubSeq(pbuf, Len(plast) + 1, Len(pbuf))

\* The unpack call that mirrors a pack call.
UnpackOf ==
  [pack_uint |-> "unpack_uint", pack_int |-> "unpack_int",
   pack_bool |-> "unpack_bool", pack_uhyper |-> "unpack_uhyper",
   pack_hyper |-> "unpack_hyper", pack_fstring |-> "unpack_fstring",
   pack_string |-> "unpack_string", pack_list |-> "unpack_list",
   pack_farray |-> "unpack_farray", pack_array |-> "unpack_array"]

ScalarOps == {"pack_uint", "pack_int", "pack_bool", "pack_uhyper", "pack_hyper"}

\* The word at byte offset off of buf (off + 4 <= Len(buf)), unsigned and signed.
WordAt(buf, off) ==
  ((buf[off + 1] * ByteMod + buf[off + 2]) * ByteMod + buf[off + 3]) * ByteMod
  + buf[off + 4]

IntAt(buf, off) ==
  IF WordAt(buf, off) >= WordHalf THEN WordAt(buf, off) - WordMod
  ELSE WordAt(buf, off)

\* C1: an in-range value of a scalar type, packed on a fresh Packer and
\* unpacked by the matching call on an Unpacker of get_buffer(), comes back
\* unchanged; pack_hyper(-1) writes eight bytes of all ones; pack_uhyper
\* writes the high word before the low word.
C1_ScalarRoundTrip ==
  (Len(plog) = 1 /\ plog[1].inrange /\ plog[1].op \in ScalarOps) =>
    /\ (plog[1].op = "pack_hyper" /\ plog[1].x = -1) =>
         pbuf = [i \in 1 .. 8 |-> ByteMax]
    /\ (plog[1].op = "pack_uhyper") =>
         ( /\ Len(pbuf) = 8
           /\ WordAt(pbuf, 0) = plog[1].x \div WordMod
           /\ WordAt(pbuf, 4) = plog[1].x % WordMod )
    /\ (mode = "replay" /\ unext = 2 /\ ulast.op # "done") =>
         ( /\ ulast.op = UnpackOf[plog[1].op]
           /\ ulast.status = "ok"
           /\ ulast.x = plog[1].x )

C1_Witness ==
  /\ mode = "replay"
  /\ unext = 2
  /\ Len(plog) = 1
  /\ plog[1].op = "pack_hyper"
  /\ plog[1].x = -1
  /\ ulast.op = "unpack_hyper"
  /\ ulast.x = -1

\* C2: an Unpacker of get_buffer() that makes the unpack calls matching a
\* sequence of in-range pack calls, in the same order, gets the same values;
\* each unpack call advances the cursor by the number of bytes its pack call
\* appended; after the last call the cursor is at the end of the buffer and
\* done() succeeds.
C2_Mirror ==
  mode = "replay" =>
    /\ (unext > 1 /\ ulast.op # "done") =>
         LET e == plog[unext - 1]
         IN  /\ ulast.op = UnpackOf[e.op]
             /\ ulast.status = "ok"
             /\ upos - ulast.before = e.size
             /\ e.op \in ScalarOps => ulast.x = e.x
             /\ e.op \notin ScalarOps => ulast.s = e.s
    /\ unext > Len(plog) => upos = Len(ubuf)
    /\ ulast.op = "done" => ulast.status = "ok"

C2_Witness ==
  /\ mode = "replay"
  /\ Len(plog) = 2
  /\ plog[1].op = "pack_list"
  /\ plog[1].s = <<1, -2>>
  /\ plog[2].op = "pack_fstring"
  /\ plog[2].n = 3
  /\ ulast.op = "done"
  /\ ulast.status = "ok"
  /\ upos = 24

\* C3: between the calls on an Unpacker that was created on a buffer and
\* only unpacked from, 0 <= cursor <= len(buffer), whether the calls
\* succeeded or failed.
C3_CursorBound == mode = "free" => (0 <= upos /\ upos <= Len(ubuf))

\* C4: an unpack call that fails with end-of-data leaves the cursor where it
\* was before the call.
C4_UnpackAllOrNothing ==
  (mode = "free" /\ ulast.status = "EOFError") => upos = ulast.before

\* C5: a Packer call that fails leaves get_buffer() as it was before the call.
C5_PackFailureWritesNothing ==
  (Len(plog) >= 1 /\ Last.status # "ok") => pbuf = plast

\* C6: pack_uhyper(x) and pack_hyper(x) fail with ConversionError and append
\* nothing when x does not fit 64 bits (x >= 2^64 or x < -2^63).
C6_HyperRangeRejected ==
  ( /\ Len(plog) >= 1
    /\ Last.op \in {"pack_uhyper", "pack_hyper"}
    /\ (Last.x >= HyperMod \/ Last.x < -HyperHalf) )
  => (Last.status = "ConversionError" /\ pbuf = plast)

\* C7: for n >= 0 and any byte string s, pack_fstring(n, s) appends exactly
\* ((n+3)//4)*4 bytes: the first min(n, len(s)) bytes of s, then zero bytes.
C7_FstringLayout ==
  (Len(plog) >= 1 /\ Last.op = "pack_fstring" /\ Last.n >= 0) =>
    /\ Last.status = "ok"
    /\ SubSeq(pbuf, 1, Len(plast)) = plast
    /\ Len(pbuf) = Len(plast) + ((Last.n + 3) \div 4) * 4
    /\ \A i \in 1 .. Len(Appended) :
         Appended[i] = IF i <= Min(Last.n, Len(Last.s)) THEN Last.s[i] ELSE 0

C7_Witness ==
  /\ Len(plog) >= 1
  /\ Last.op = "pack_fstring"
  /\ Last.n = 3
  /\ Last.s = <<1, 2>>
  /\ Appended = <<1, 2, 0, 0>>

\* C8: after any sequence of unpack calls, failed ones included, done() fails
\* exactly when some byte of the buffer was not consumed by a successful read.
C8_DoneDetectsUnread ==
  (mode = "free" /\ ulast.op = "done") =>
    (ulast.status = "Error" <=> uread # 1 .. Len(ubuf))

C10_SeekOutOfRange ==
  ( /\ mode = "seek"
    /\ ulast.op \in {"unpack_uint", "unpack_int", "unpack_uhyper",
                     "unpack_fstring", "unpack_string"}
    /\ ulast.n >= 0
    /\ (ulast.before < 0 \/ ulast.before > Len(ubuf)) )
  => ulast.status = "EOFError"

====
